---- MODULE Spec2Model ----
(***************************************************************************)
(* Model of core/portfolio.py (class Portfolio): return computation, the   *)
(* sample and the shrunk covariance estimators and the weight / expected   *)
(* return tables.                                                          *)
(*                                                                         *)
(* Numbers.  The code computes in IEEE doubles (numpy float64).  The model *)
(* computes in exact rationals extended with the three special values of   *)
(* float64 that the code can produce (nan, +inf, -inf), with the IEEE      *)
(* rules for them: x/0 is +-inf, 0/0 is nan, nan is contagious and every   *)
(* comparison with nan is false.  An input value is a double, that is a   *)
(* rational whose denominator is a power of two (1/10 is no double and no  *)
(* input).  A computed rational stands for the double next to it; where    *)
(* rounding decides the outcome (a quotient whose exact value is 0/0, see  *)
(* Kappa) every outcome a build can compute is allowed.  np.sqrt is        *)
(* defined on the rationals with a rational root only; what the estimator  *)
(* computes of other values is Unrepresented (see Represented).  Every     *)
(* zero divisor the code can form is +0.0 (a norm, a product of square     *)
(* roots, n*(n-1)), so signed zeros are not distinguished.                 *)
(***************************************************************************)
EXTENDS Integers, Sequences, FiniteSets, TLC

-----------------------------------------------------------------------------
(* float64 values: [k |-> "num", n, d] is n/d in lowest terms with d > 0.  *)

Abs(i) == IF i < 0 THEN -i ELSE i

RECURSIVE Gcd(_, _)
Gcd(a, b) == IF b = 0 THEN a ELSE Gcd(b, a % b)

Q(n, d) ==
    LET g == Gcd(Abs(n), Abs(d))
        s == IF d < 0 THEN -1 ELSE 1
    IN  [k |-> "num", n |-> s * (n \div g), d |-> s * (d \div g)]

I(i) == [k |-> "num", n |-> i, d |-> 1]

NaN == [k |-> "nan", n |-> 0, d |-> 1]
PInf == [k |-> "inf", n |-> 1, d |-> 1]
NInf == [k |-> "inf", n |-> -1, d |-> 1]

IsNum(a) == a.k = "num"
IsNaN(a) == a.k = "nan"
IsInf(a) == a.k = "inf"
Sign(a) == IF a.n > 0 THEN 1 ELSE IF a.n < 0 THEN -1 ELSE 0
SignedInf(s) == IF s > 0 THEN PInf ELSE NInf

FNeg(a) == [a EXCEPT !.n = -a.n]

FAdd(a, b) ==
    IF IsNaN(a) \/ IsNaN(b) THEN NaN
    ELSE IF IsInf(a) /\ IsInf(b) THEN (IF a.n = b.n THEN a ELSE NaN)
    ELSE IF IsInf(a) THEN a
    ELSE IF IsInf(b) THEN b
    ELSE LET g == Gcd(a.d, b.d)
         IN  Q(a.n * (b.d \div g) + b.n * (a.d \div g), (a.d \div g) * b.d)

FSub(a, b) == FAdd(a, FNeg(b))

FMul(a, b) ==
    IF IsNaN(a) \/ IsNaN(b) THEN NaN
    ELSE IF IsInf(a) \/ IsInf(b)
         THEN (IF Sign(a) * Sign(b) = 0 THEN NaN ELSE SignedInf(Sign(a) * Sign(b)))
    ELSE LET g1 == Gcd(Abs(a.n), b.d)
             g2 == Gcd(Abs(b.n), a.d)
         IN  Q((a.n \div g1) * (b.n \div g2), (a.d \div g2) * (b.d \div g1))

FDiv(a, b) ==
    IF IsNaN(a) \/ IsNaN(b) THEN NaN
    ELSE IF IsInf(a) THEN (IF IsInf(b) THEN NaN
                           ELSE SignedInf(Sign(a) * (IF Sign(b) < 0 THEN -1 ELSE 1)))
    ELSE IF IsInf(b) THEN I(0)
    ELSE IF b.n = 0 THEN (IF a.n = 0 THEN NaN ELSE SignedInf(Sign(a)))
    ELSE FMul(a, [k |-> "num", n |-> Sign(b) * b.d, d |-> Abs(b.n)])

\* a < b as float64 compares: false whenever either side is nan
FLt(a, b) ==
    IF IsNaN(a) \/ IsNaN(b) THEN FALSE
    ELSE IF IsInf(a) THEN a.n < 0 /\ ~(IsInf(b) /\ b.n < 0)
    ELSE IF IsInf(b) THEN b.n > 0
    ELSE a.n * b.d < b.n * a.d

FLe(a, b) == ~IsNaN(a) /\ ~IsNaN(b) /\ ~FLt(b, a)

\* integer square root (the greatest r with r * r <= m), by Newton's iteration
RECURSIVE NewtonSqrt(_, _)
NewtonSqrt(m, x) ==
    LET y == (x + m \div x) \div 2
    IN  IF y >= x THEN x ELSE NewtonSqrt(m, y)

ISqrt(m) == IF m = 0 THEN 0 ELSE NewtonSqrt(m, m)
IsSquare(m) == m >= 0 /\ ISqrt(m) * ISqrt(m) = m
HasExactSqrt(a) == ~IsNum(a) \/ a.n < 0 \/ (IsSquare(a.n) /\ IsSquare(a.d))

\* np.sqrt, on nan, the infinities, the negative numbers and the rationals that
\* have a rational root (no value is given to the others)
FSqrt(a) ==
    IF IsNaN(a) THEN NaN
    ELSE IF IsInf(a) THEN (IF a.n > 0 THEN PInf ELSE NaN)
    ELSE IF a.n < 0 THEN NaN
    ELSE CHOOSE r \in {Q(ISqrt(a.n), ISqrt(a.d))} : FMul(r, r) = a

\* the builtins min(a, b) and max(a, b): the first argument is kept unless the
\* second compares strictly below (above) it
PyMin(a, b) == IF FLt(b, a) THEN b ELSE a
PyMax(a, b) == IF FLt(a, b) THEN b ELSE a

RECURSIVE SumSeq(_)
SumSeq(s) == IF s = <<>> THEN I(0) ELSE FAdd(SumSeq(SubSeq(s, 1, Len(s) - 1)), s[Len(s)])

-----------------------------------------------------------------------------
(* Small matrix helpers: a matrix is a sequence of rows, a row a sequence   *)
(* of float64 values.                                                      *)

NRows(m) == Len(m)
NCols(m) == IF Len(m) = 0 THEN 0 ELSE Len(m[1])

\* sum(sum(m)): the builtin sum applied twice to a 2-D array
SumSum(m) == SumSeq([i \in 1..NRows(m) |-> SumSeq(m[i])])

Sq(a) == FMul(a, a)
Cube(a) == FMul(a, FMul(a, a))

-----------------------------------------------------------------------------
(* Portfolio.get_shrunk_covariance_matrix                                  *)

None == [k |-> "None", n |-> 0, d |-> 1]

\* an array with its entries computed once, as numpy computes them
Computed(a) == IF a = a THEN a ELSE a

\* cov.mean(axis=0)
ColMean(cov, t, n) ==
    [j \in 1..n |-> FDiv(SumSeq([i \in 1..t |-> cov[i][j]]), I(t))]

\* cov - np.tile(meanx, (t, 1))
Demean(cov, t, n) ==
    LET meanx == ColMean(cov, t, n)
    IN  Computed([i \in 1..t |-> [j \in 1..n |-> FSub(cov[i][j], meanx[j])]])

\* (1.0 / t) * np.dot(cov.T, cov)
SampleT(cov, t, n) ==
    Computed([i \in 1..n |-> [j \in 1..n |->
        FMul(FDiv(I(1), I(t)), SumSeq([s \in 1..t |-> FMul(cov[s][i], cov[s][j])]))]])

\* a * a.T with a = np.tile(np.sqrt(var), (n, 1)): entry (i, j) is
\* sqrt(var_i) * sqrt(var_j), computed here as sqrt(var_i * var_j)
AProd(var, n) == [i \in 1..n |-> [j \in 1..n |-> FSqrt(FMul(var[i], var[j]))]]

\* a / a.T: entry (i, j) is sqrt(var_j) / sqrt(var_i), computed here as
\* sqrt(var_j / var_i)
AQuot(var, n) == [i \in 1..n |-> [j \in 1..n |-> FSqrt(FDiv(var[j], var[i]))]]

\* (sum(sum(sample / (a * a.T))) - n) / (n*(n-1))
AvgCorr(sample, var, n) ==
    LET aa == AProd(var, n)
        corr == [i \in 1..n |-> [j \in 1..n |-> FDiv(sample[i][j], aa[i][j])]]
    IN  FDiv(FSub(SumSum(corr), I(n)), I(n * (n - 1)))

\* m[np.eye(t, n)==1] = d for t = n: the diagonal of m is d, the rest is kept
SetDiagonal(m, d, n) ==
    [i \in 1..n |-> [j \in 1..n |-> IF i = j THEN d[i] ELSE m[i][j]]]

\* rho * (a * a.T)
ScaledAProd(rho, var, n) ==
    LET aa == AProd(var, n)
    IN  [i \in 1..n |-> [j \in 1..n |-> FMul(rho, aa[i][j])]]

\* prior = rho * (a * a.T); prior[np.eye(t, n)==1] = var   (t = n)
Prior(rho, var, n) == SetDiagonal(ScaledAProd(rho, var, n), var, n)

\* np.linalg.norm(sample-prior, 'fro')**2: the sum of the squared entries
FroSq(sample, prior, n) ==
    SumSum([i \in 1..n |-> [j \in 1..n |-> Sq(FSub(sample[i][j], prior[i][j]))]])

\* p = np.dot((1.0 / t), sum(sum(np.dot(y.T, y)))) - sum(sum(sample**2.0))
PiHat(cov, sample, t, n) ==
    LET y == [i \in 1..t |-> [j \in 1..n |-> Sq(cov[i][j])]]
        yty == [i \in 1..n |-> [j \in 1..n |->
                   SumSeq([s \in 1..t |-> FMul(y[s][i], y[s][j])])]]
        s2 == [i \in 1..n |-> [j \in 1..n |-> Sq(sample[i][j])]]
    IN  FSub(FMul(FDiv(I(1), I(t)), SumSum(yty)), SumSum(s2))

\* rdiag = np.dot((1.0 / t), sum(sum(y**2.0))) - sum(var**2.0)
RDiag(cov, var, t, n) ==
    LET y4 == [i \in 1..t |-> [j \in 1..n |-> Sq(Sq(cov[i][j]))]]
    IN  FSub(FMul(FDiv(I(1), I(t)), SumSum(y4)), SumSeq([j \in 1..n |-> Sq(var[j])]))

\* np.dot((cov**3.0).T, cov) / t - ((var*sample).T)
VProd(cov, sample, var, t, n) ==
    [i \in 1..n |-> [j \in 1..n |->
        FSub(FDiv(SumSeq([s \in 1..t |-> FMul(Cube(cov[s][i]), cov[s][j])]), I(t)),
             FMul(var[i], sample[j][i]))]]

\* v = np.dot((cov**3.0).T, cov) / t - ((var*sample).T); v[np.eye(t, n)==1] = 0.0
\* roff = sum(sum(v * (a / a.T)))
ROff(cov, sample, var, t, n) ==
    LET v == SetDiagonal(VProd(cov, sample, var, t, n), [i \in 1..n |-> I(0)], n)
        q == AQuot(var, n)
    IN  SumSum([i \in 1..n |-> [j \in 1..n |-> FMul(v[i][j], q[i][j])]])

\* the mutant: the estimate returned without the clip
ShrinkageUnclipped(k, t) == FDiv(k, I(t))

\* shrinkage = max(0.0, min(1.0, k/t))
Shrinkage(k, t) == PyMax(I(0), PyMin(I(1), FDiv(k, I(t))))

\* sigma = np.dot(shrinkage, prior) + np.dot((1 - shrinkage), sample)
Blend(shrinkage, prior, sample, n) ==
    [i \in 1..n |-> [j \in 1..n |->
        FAdd(FMul(shrinkage, prior[i][j]), FMul(FSub(I(1), shrinkage), sample[i][j]))]]

\* a value a double holds exactly: nan, an infinity, or a rational whose
\* denominator is a power of two (the numerators of the model are small)
IsPow2(m) == m >= 1 /\ (2 ^ 30) % m = 0
Dyadic(a) == ~IsNum(a) \/ IsPow2(a.d)

\* a double the rationals of the model do not determine
Unrepresented == [k |-> "unrepresented", n |-> 0, d |-> 1]

\* The values and every result of an operation of lines 463-489 on them are held
\* exactly by a double, so float64 computes what the rationals compute.
ExactInFloat64(values, t, n) ==
    LET cov == Demean(values, t, n)
        sample == SampleT(cov, t, n)
        var == [i \in 1..n |-> sample[i][i]]
        aa == AProd(var, n)
        rho == AvgCorr(sample, var, n)
        prior == Prior(rho, var, n)
        q == AQuot(var, n)
        c == FroSq(sample, prior, n)
        p == PiHat(cov, sample, t, n)
        rdiag == RDiag(cov, var, t, n)
        roff == ROff(cov, sample, var, t, n)
    IN  /\ IsPow2(t) \/ \A i \in 1..t, j \in 1..n : cov[i][j] = I(0)
        /\ \A i \in 1..t, j \in 1..n : Dyadic(values[i][j]) /\ Dyadic(cov[i][j])
        /\ \A j \in 1..n : Dyadic(ColMean(values, t, n)[j])
        /\ \A i \in 1..n : HasExactSqrt(var[i]) /\ Dyadic(FSqrt(var[i]))
        /\ \A i, j \in 1..n :
              /\ Dyadic(sample[i][j])
              /\ Dyadic(FDiv(sample[i][j], aa[i][j]))
              /\ Dyadic(prior[i][j])
              /\ Dyadic(q[i][j])
        /\ Dyadic(rho)
        \* line 480: the norm is a square root, and c is its square
        /\ HasExactSqrt(c) /\ Dyadic(FSqrt(c)) /\ Dyadic(c)
        /\ Dyadic(p) /\ Dyadic(rdiag) /\ Dyadic(roff)
        /\ Dyadic(FMul(rho, roff)) /\ Dyadic(FAdd(rdiag, FMul(rho, roff)))

\* The values are doubles and the square roots of lines 470-486 are rational:
\* the rationals of the model stand for the doubles the estimator computes.
\* (sqrt(var_j / var_i) of line 486 is rational where sqrt(var_i * var_j) of
\* line 470 is, their quotient being var_i.)  With one column the divisor
\* n*(n-1) of line 473 is 0 and rho is the rounding residue of
\* sample / (a * a.T) - 1 over 0, unless every operation is exact.
Represented(values, var, t, n) ==
    /\ \A i \in 1..t, j \in 1..n : Dyadic(values[i][j])
    /\ \A i \in 1..n, j \in 1..n : i <= j => HasExactSqrt(FMul(var[i], var[j]))
    /\ n = 1 => ExactInFloat64(values, t, n)

\* k = (p - r) / c.  Where p - r and c are both 0 in the rationals and some
\* operation rounds, the doubles p - r and c are rounding residues: the quotient
\* is nan (0/0), an infinity or a huge number of either sign (residue over 0 or
\* over a tiny c; an infinity stands for both), or 0 (0 over a tiny c).
Kappa(p, r, c, values, t, n) ==
    IF IsNum(c) /\ c = I(0) /\ IsNum(p) /\ IsNum(r) /\ p = r
        /\ ~ExactInFloat64(values, t, n)
    THEN {NaN, PInf, NInf, I(0)}
    ELSE {FDiv(FSub(p, r), c)}

\* The numbers the estimator can compute from the values of x (t = n): one
\* record for every k, and none without rows (1.0 / t of line 467 raises).
Estimate(values, t, n) ==
    IF t = 0 THEN {} ELSE
    LET cov == Demean(values, t, n)
        sample == SampleT(cov, t, n)
        var == [i \in 1..n |-> sample[i][i]]
        rho == AvgCorr(sample, var, n)
        prior == Prior(rho, var, n)
        c == FroSq(sample, prior, n)
        p == PiHat(cov, sample, t, n)
        rdiag == RDiag(cov, var, t, n)
        roff == ROff(cov, sample, var, t, n)
        r == FAdd(rdiag, FMul(rho, roff))
    IN  IF ~Represented(values, var, t, n)
        THEN {[sample |-> sample, prior |-> Unrepresented, c |-> Unrepresented,
               p |-> Unrepresented, r |-> Unrepresented, k |-> Unrepresented,
               shrinkage |-> Unrepresented, sigma |-> Unrepresented]}
        ELSE {[sample |-> sample, prior |-> prior, c |-> c, p |-> p, r |-> r,
               k |-> k, shrinkage |-> Shrinkage(k, t),
               sigma |-> Blend(Shrinkage(k, t), prior, sample, n)] :
              k \in Kappa(p, r, c, values, t, n)}

\* What the call can do on x (a record: type, values, index, columns) and shrink.
\* A set: the exception class raised for a non-square DataFrame depends on the
\* numpy / pandas build (the boolean mask np.eye(t, n) on the n x n prior, or the
\* t labels of x.index on the n x n sigma).  Without rows t is the int 0 and
\* 1.0 / t of line 467 raises ZeroDivisionError.
get_shrunk_covariance_matrix(x, shrink) ==
    IF x.type = "NoneType" THEN {[kind |-> "raise", exc |-> "ValueError"]}
    ELSE IF x.type \notin {"DataFrame", "ndarray"}
         THEN {[kind |-> "raise", exc |-> "ValueError"]}
    ELSE IF x.type = "ndarray" THEN {[kind |-> "raise", exc |-> "AttributeError"]}
    ELSE LET t == NRows(x.values)
             n == NCols(x.values)
         IN  IF t = 0 THEN {[kind |-> "raise", exc |-> "ZeroDivisionError"]}
             ELSE IF t # n
             THEN {[kind |-> "raise", exc |-> e] :
                      e \in {"IndexError", "ValueError", "AssertionError"}}
             ELSE {[kind |-> "return", sigma |-> e.sigma, index |-> x.index,
                    columns |-> x.columns, shrinkage |-> e.shrinkage] :
                   e \in Estimate(x.values, t, n)}

-----------------------------------------------------------------------------
(* State.  One call of a method of a constructed Portfolio: the object's    *)
(* fields, the two external stores it reads, and the call with its result. *)

VARIABLES
    self,        \* the Portfolio's fields (_exp_ret, _hld_per, _shrs, _freq, _bench_wts)
    price_data,  \* rows of the table /price_data of price_data.h5
    quotes,      \* last trade price by ticker, as yahoo.Yahoo answers
    op,          \* the method called
    arg,         \* its arguments
    pc,          \* "call": entered, "done": returned or raised
    ret          \* its outcome

vars == <<self, price_data, quotes, op, arg, pc, ret>>

NoRet == [kind |-> "none"]

\* asset identifiers and row labels, in order
Tickers == <<"A", "B", "C", "D", "E">>
RowLabels == <<"2012-01-01", "2012-01-02", "2012-01-03", "2012-01-04", "2012-01-05">>

\* a portfolio that holds nothing, for the calls that read no field
EmptyPortfolio ==
    [exp_ret |-> <<>>, hld_per |-> <<>>, shrs |-> <<>>, freq |-> "m", bench_wts |-> <<>>]

-----------------------------------------------------------------------------
(* Inputs of get_shrunk_covariance_matrix.                                 *)

MaxDim == 3        \* rows and columns of x: 1..MaxDim each
MaxNonZero == 4    \* at most this many entries of x are 1, the others are 0
MaxShrinkCells == 9  \* shrink is passed with an x of at most this many entries

\* the t x n matrix with 1 at the row-major cells S and 0 elsewhere
SparseMatrix(S, t, n) ==
    [i \in 1..t |-> [j \in 1..n |-> IF ((i - 1) * n + j) \in S THEN I(1) ELSE I(0)]]

\* np.sqrt is exact on x: every product of two column variances is the square of
\* a rational (t * t * var_j is t * sum of x^2 - (sum of x)^2)
ExactInput(values) ==
    LET t == NRows(values)
        n == NCols(values)
        s1 == [j \in 1..n |-> SumSeq([i \in 1..t |-> values[i][j]]).n]
        s2 == [j \in 1..n |-> SumSeq([i \in 1..t |-> Sq(values[i][j])]).n]
        q == [j \in 1..n |-> t * s2[j] - s1[j] * s1[j]]
    IN  \A i, j \in 1..n : IsSquare(q[i] * q[j])

Frame(type, values) ==
    [type |-> type, values |-> values,
     index |-> SubSeq(RowLabels, 1, NRows(values)),
     columns |-> SubSeq(Tickers, 1, NCols(values))]

\* a DataFrame of n columns without rows
EmptyFrame(n) ==
    [type |-> "DataFrame", values |-> <<>>, index |-> <<>>,
     columns |-> SubSeq(Tickers, 1, n)]

ShrinkValues == {None, I(0), I(1)}

\* x is a DataFrame or an ndarray of 1..MaxDim rows and columns with at most
\* MaxNonZero entries 1 and the others 0, a DataFrame without rows, or no array
\* at all
InitShrink ==
    /\ self = EmptyPortfolio
    /\ price_data = <<>>
    /\ quotes = <<>>
    /\ op = "get_shrunk_covariance_matrix"
    /\ pc = "call"
    /\ ret = NoRet
    /\ \/ \E t \in 1..MaxDim, n \in 1..MaxDim :
            \E S \in SUBSET (1..(t * n)) :
               /\ Cardinality(S) <= MaxNonZero
               /\ \/ /\ ExactInput(SparseMatrix(S, t, n))
                     /\ \E sh \in ShrinkValues :
                           /\ sh # None => t * n <= MaxShrinkCells
                           /\ arg = [x |-> Frame("DataFrame", SparseMatrix(S, t, n)),
                                     shrink |-> sh]
                  \/ /\ Cardinality(S) <= 1
                     /\ arg = [x |-> Frame("ndarray", SparseMatrix(S, t, n)),
                               shrink |-> None]
       \/ \E n \in 0..MaxDim, sh \in ShrinkValues :
             arg = [x |-> EmptyFrame(n), shrink |-> sh]
       \/ \E ty \in {"NoneType", "list"} :
             arg = [x |-> [type |-> ty, values |-> <<>>, index |-> <<>>, columns |-> <<>>],
                    shrink |-> None]

\* The arrays of a call.  heap[a] is the content of the array at address a: the
\* caller's array is at 1, and an array the call makes gets the next address.
\* A name of the call is bound to an address (0: not bound yet).
Top(heap) == Cardinality(DOMAIN heap)
NewArray(heap, a) ==
    [b \in 1..(Top(heap) + 1) |-> IF b = Top(heap) + 1 THEN a ELSE heap[b]]
WriteArray(heap, at, a) == [b \in DOMAIN heap |-> IF b = at THEN a ELSE heap[b]]

\* cov = x.as_matrix() (or cov = x): cov is the caller's array itself, no copy
AsMatrix(x) == [heap |-> <<x.values>>, cov |-> 1, prior |-> 0, v |-> 0]

\* the mutant: cov -= np.tile(meanx, (t, 1)), written into the array cov names
DemeanInPlace(m) ==
    LET a == m.heap[m.cov]
    IN  [m EXCEPT !.heap = WriteArray(m.heap, m.cov, Demean(a, NRows(a), NCols(a)))]

\* cov = cov - np.tile(meanx, (t, 1)): the difference is a new array and cov is
\* bound to it
DemeanRebind(m) ==
    LET a == m.heap[m.cov]
    IN  [m EXCEPT !.heap = NewArray(m.heap, Demean(a, NRows(a), NCols(a))),
                  !.cov = Top(m.heap) + 1]

\* prior = rho * (a * a.T): the product is a new array and prior is bound to it
PriorMade(m, product) ==
    [m EXCEPT !.heap = NewArray(m.heap, product), !.prior = Top(m.heap) + 1]

\* prior[np.eye(t, n)==1] = var, written into the array prior names (t = n)
PriorMasked(m, var, n) ==
    [m EXCEPT !.heap = WriteArray(m.heap, m.prior, SetDiagonal(m.heap[m.prior], var, n))]

\* v = np.dot((cov**3.0).T, cov) / t - ((var*sample).T): the difference is a new
\* array and v is bound to it
VMade(m, difference) ==
    [m EXCEPT !.heap = NewArray(m.heap, difference), !.v = Top(m.heap) + 1]

\* v[np.eye(t, n)==1] = 0.0, written into the array v names (t = n)
VMasked(m, n) ==
    [m EXCEPT !.heap = WriteArray(m.heap, m.v,
                                  SetDiagonal(m.heap[m.v], [i \in 1..n |-> I(0)], n))]

\* The arrays when the call of get_shrunk_covariance_matrix(x) ends.  None and
\* other types raise before any array is named, an ndarray at x.index (line 460),
\* a DataFrame without rows at line 467.  With t # n the masked assignment of
\* line 476 raises; with t > n a numpy build that takes the t x n mask for the
\* indices of its nonzero entries writes the diagonals of prior and v as with
\* t = n, and line 494 raises.  One heap for every build.  The entries of prior
\* are Unrepresented where the rationals do not determine them.
ShrunkArrays(x) ==
    IF x.type \notin {"DataFrame", "ndarray"} THEN {<<x.values>>}
    ELSE IF x.type = "ndarray" THEN {AsMatrix(x).heap}
    ELSE LET t == NRows(x.values)
             n == NCols(x.values)
             demeaned == DemeanRebind(AsMatrix(x))
             cov == demeaned.heap[demeaned.cov]
             sample == SampleT(cov, t, n)
             var == [i \in 1..n |-> sample[i][i]]
             product == IF Represented(demeaned.heap[1], var, t, n)
                        THEN ScaledAProd(AvgCorr(sample, var, n), var, n)
                        ELSE [i \in 1..n |-> [j \in 1..n |-> Unrepresented]]
             prior == PriorMade(demeaned, product)
             masked == VMasked(VMade(PriorMasked(prior, var, n),
                                     VProd(cov, sample, var, t, n)), n)
         IN  IF t = 0 THEN {demeaned.heap}
             ELSE IF t < n THEN {prior.heap}
             ELSE IF t > n THEN {prior.heap, masked.heap}
             ELSE {masked.heap}

\* the caller's x after the call: the labels are only read (lines 460-461, 494)
ShrunkInputAfter(x) == {[x EXCEPT !.values = heap[1]] : heap \in ShrunkArrays(x)}

ShrunkCovariance ==
    /\ pc = "call"
    /\ op = "get_shrunk_covariance_matrix"
    /\ ret' \in get_shrunk_covariance_matrix(arg.x, arg.shrink)
    /\ \E after \in ShrunkInputAfter(arg.x) : arg' = [arg EXCEPT !.x = after]
    /\ pc' = "done"
    /\ UNCHANGED <<self, price_data, quotes, op>>

NextShrink == ShrunkCovariance

SpecShrink == InitShrink /\ [][NextShrink]_vars

Returned == pc = "done" /\ ret.kind = "return"
Raised == pc = "done" /\ ret.kind = "raise"

\* what the estimator can compute on the values of the call's x; sample, prior
\* and c are the same in all of Ests
Ests == Estimate(arg.x.values, NRows(arg.x.values), NCols(arg.x.values))
Est == CHOOSE e \in Ests : TRUE

\* clamp(q, 0, 1) of a number or an infinity
Clamp01(q) == IF FLt(q, I(0)) THEN I(0) ELSE IF FLt(I(1), q) THEN I(1) ELSE q

\* C1 (as claimed): when the caller passes shrink, that value is the intensity
\* returned and used: shrink = 1 returns the prior F, shrink = 0 returns the sample
\* covariance S.
C1_ExplicitShrinkUsed ==
    (Returned /\ arg.shrink # None) =>
        /\ ret.shrinkage = arg.shrink
        /\ ret.sigma = Blend(arg.shrink, Est.prior, Est.sample, NCols(arg.x.values))

\* C2: whenever the call returns, the intensity returned lies in [0, 1], and it is
\* clamp(kappa / T, 0, 1) of the kappa computed whenever kappa / T is a number or
\* an infinity.
C2_ShrinkageInUnitInterval ==
    Returned =>
        /\ FLe(I(0), ret.shrinkage)
        /\ FLe(ret.shrinkage, I(1))
        /\ \E e \in Ests :
              LET q == FDiv(e.k, I(NRows(arg.x.values)))
              IN  /\ ret.shrinkage = e.shrinkage
                  /\ ret.sigma = e.sigma
                  /\ ~IsNaN(q) => ret.shrinkage = Clamp01(q)

\* C2 witness: a call returned where kappa / T is a finite number above 1 and the
\* intensity returned is 1
C2_Witness ==
    /\ Returned
    /\ Ests = {Est}
    /\ IsNum(Est.k)
    /\ FLt(I(NRows(arg.x.values)), Est.k)
    /\ ret.shrinkage = I(1)

\* C3 (as claimed): when gamma is zero (N < 2 included) the call returns the
\* intensity 0 and the sample covariance S unchanged.
C3_ZeroGammaGivesZeroShrinkage ==
    (Returned /\ Est.c = I(0)) =>
        /\ ret.shrinkage = I(0)
        /\ ret.sigma = Est.sample

-----------------------------------------------------------------------------
(* Portfolio._get_historic_data and Portfolio._get_historic_returns.        *)
(* Time is counted in half days: an even instant is a midnight.  A row of  *)
(* price_data is [ticker, date, adjustedClose, frequency]; a Series is     *)
(* [index, values], two sequences of one length.                           *)

\* time.mktime(time.strptime(d.strftime("%Y-%m-%d"), "%Y-%m-%d")): the midnight
\* that starts the day of instant ts
Midnight(ts) == ts - (ts % 2)

\* price_data.readWhere(condition): the matching rows, in table order
ReadWhere(rows, frequency, ticker, start, end) ==
    SelectSeq(rows, LAMBDA r : /\ r.frequency = frequency
                               /\ r.ticker = ticker
                               /\ r.date >= start
                               /\ r.date <= end)

\* row r put in its place in the date-ascending sequence s
RECURSIVE InsertByDate(_, _)
InsertByDate(s, r) ==
    IF s = <<>> THEN <<r>>
    ELSE IF s[Len(s)].date <= r.date THEN Append(s, r)
    ELSE Append(InsertByDate(SubSeq(s, 1, Len(s) - 1), r), s[Len(s)])

\* the mutant: the rows left in table order
UnsortedByDate(rows) == rows

\* DataFrame.sort(ascending=True): the rows by ascending index
RECURSIVE SortByDate(_)
SortByDate(rows) ==
    IF rows = <<>> THEN <<>>
    ELSE InsertByDate(SortByDate(SubSeq(rows, 1, Len(rows) - 1)), rows[Len(rows)])

\* The adjustedClose column of the frame _get_historic_data returns, or the
\* exception it raises.  start and end are [type, ts].
_get_historic_data(rows, frequency, ticker, start, end) ==
    IF start.type \notin {"str", "datetime"} THEN [kind |-> "raise", exc |-> "ValueError"]
    ELSE IF start.type = "str" THEN [kind |-> "raise", exc |-> "AttributeError"]
    ELSE IF end.type \notin {"str", "datetime"} THEN [kind |-> "raise", exc |-> "ValueError"]
    ELSE IF end.type = "str" THEN [kind |-> "raise", exc |-> "AttributeError"]
    ELSE LET res == ReadWhere(rows, frequency, ticker, Midnight(start.ts), Midnight(end.ts))
             sorted == SortByDate(res)
         IN  IF res = <<>> THEN [kind |-> "raise", exc |-> "KeyError"]
             ELSE [kind |-> "return",
                   index |-> [i \in 1..Len(sorted) |-> sorted[i].date],
                   values |-> [i \in 1..Len(sorted) |-> I(sorted[i].adjustedClose)]]

\* the mutant: the values moved the other way
ShiftBackward(values, periods) ==
    [i \in 1..Len(values) |->
        IF i + periods >= 1 /\ i + periods <= Len(values) THEN values[i + periods] ELSE NaN]

\* Series.shift(periods): the value of position i - periods at position i, nan
\* where there is none
Shift(values, periods) ==
    [i \in 1..Len(values) |->
        IF i - periods >= 1 /\ i - periods <= Len(values) THEN values[i - periods] ELSE NaN]

\* prices['adjustedClose'] / prices['adjustedClose'].shift(offset) - 1
_get_historic_returns(rows, frequency, ticker, start, end, offset) ==
    LET prices == _get_historic_data(rows, frequency, ticker, start, end)
    IN  IF prices.kind = "raise" THEN prices
        ELSE LET shifted == Shift(prices.values, offset)
             IN  [kind |-> "return",
                  index |-> prices.index,
                  values |-> [i \in 1..Len(prices.values) |->
                                 FSub(FDiv(prices.values[i], shifted[i]), I(1))]]

-----------------------------------------------------------------------------
(* Inputs of _get_historic_returns.                                         *)

MaxDays == 3       \* days with a price row: 0..MaxDays-1
MaxOffset == 3     \* offset: 0..MaxOffset

PriceValues == {1, 2, 4}

\* the rows of one ticker: at most one row a day, dated at its midnight, priced
\* in prices
TickerRows(ticker, frequency, prices) ==
    UNION {{[d \in 1..Cardinality(D) |->
                LET day == CHOOSE x \in D : Cardinality({y \in D : y < x}) = d - 1
                IN  [ticker |-> ticker, date |-> 2 * day, adjustedClose |-> f[day],
                     frequency |-> frequency]] : f \in [D -> prices]} :
              D \in SUBSET (0..(MaxDays - 1))}

Reverse(s) == [i \in 1..Len(s) |-> s[Len(s) + 1 - i]]

\* a datetime at instant ts, and a date given as a string
At(ts) == [type |-> "datetime", ts |-> ts]
DateArgs == {At(0), At(1), At(2 * MaxDays - 1), [type |-> "str", ts |-> 0],
             [type |-> "float", ts |-> 0]}

InitReturns ==
    /\ self = [EmptyPortfolio EXCEPT !.freq = "d"]
    /\ \E rows \in TickerRows("A", "d", PriceValues) : price_data \in {rows, Reverse(rows)}
    /\ quotes = <<>>
    /\ op = "_get_historic_returns"
    /\ arg \in [ticker : {"A", "B"}, start : DateArgs, end : DateArgs,
                offset : 0..MaxOffset]
    /\ pc = "call"
    /\ ret = NoRet

HistoricReturns ==
    /\ pc = "call"
    /\ op = "_get_historic_returns"
    /\ ret' = _get_historic_returns(price_data, self.freq, arg.ticker, arg.start,
                                    arg.end, arg.offset)
    /\ pc' = "done"
    /\ UNCHANGED <<self, price_data, quotes, op, arg>>

NextReturns == HistoricReturns

SpecReturns == InitReturns /\ [][NextReturns]_vars

\* the price series the call's returns are computed from
Prices == _get_historic_data(price_data, self.freq, arg.ticker, arg.start, arg.end)

ReturnsCase ==
    /\ op = "_get_historic_returns"
    /\ Returned
    /\ Len(Prices.values) >= 2
    /\ arg.offset >= 1

\* (p[i] - p[i - offset]) / p[i - offset] for the prices at positions i and i - offset
SimpleReturn(values, i, offset) ==
    Q(values[i].n - values[i - offset].n, values[i - offset].n)

\* C4 (as claimed): for a price series of at least 2 points and offset >= 1 the
\* returns have length len - offset, one entry price[i]/price[i-offset] - 1 for each
\* i >= offset and none for the indices below offset.
C4_LengthIsLenMinusOffset ==
    ReturnsCase =>
        /\ Len(ret.values) = Len(Prices.values) - arg.offset
        /\ \A i \in 1..Len(ret.values) :
               ret.values[i] = SimpleReturn(Prices.values, i + arg.offset, arg.offset)

\* C4 (amended): the returns keep the length and the ascending dates of the price
\* series; the entry of a position that has a price offset places before it is
\* price[i]/price[i-offset] - 1, and each of the first min(offset, len) entries
\* is present and is nan.
C4_ReturnsPaddedWithNaN ==
    ReturnsCase =>
        /\ Len(ret.values) = Len(Prices.values)
        /\ ret.index = Prices.index
        /\ \A i \in 1..(Len(ret.index) - 1) : ret.index[i] < ret.index[i + 1]
        /\ \A i \in 1..Len(ret.values) :
               ret.values[i] = IF i > arg.offset
                               THEN SimpleReturn(Prices.values, i, arg.offset)
                               ELSE NaN

\* C4 witness: three prices and offset 2 returned a non-zero return in the last
\* place, after two nan entries
C4_Witness ==
    /\ ReturnsCase
    /\ Len(Prices.values) = 3
    /\ arg.offset = 2
    /\ IsNum(ret.values[3]) /\ ret.values[3] # I(0)
    /\ ret.values[1] = NaN /\ ret.values[2] = NaN

-----------------------------------------------------------------------------
(* Portfolio.get_portfolio_historic_returns and get_covariance_matrix.      *)
(* A DataFrame is [index, columns, values]: the row labels, the column      *)
(* labels and the rows.                                                     *)

\* the elements of a finite set of integers, or of strings listed in Tickers,
\* ascending
RECURSIVE SortedInts(_)
SortedInts(S) ==
    IF S = {} THEN <<>>
    ELSE LET m == CHOOSE x \in S : \A y \in S : y <= x
         IN  Append(SortedInts(S \ {m}), m)

SortedTickers(S) == SelectSeq(Tickers, LAMBDA k : k \in S)

Range(s) == {s[i] : i \in 1..Len(s)}

\* the value of a Series at label d, nan where it has none
AtLabel(series, d) ==
    IF \E i \in 1..Len(series.index) : series.index[i] = d
    THEN series.values[CHOOSE i \in 1..Len(series.index) : series.index[i] = d]
    ELSE NaN

\* pandas.DataFrame(dict of Series): the union of the indexes ascending, the keys
\* ascending, nan where a Series has no value
FrameOfSeries(d) ==
    LET columns == SortedTickers(DOMAIN d)
        index == SortedInts(UNION {Range(d[k].index) : k \in DOMAIN d})
    IN  [index |-> index, columns |-> columns,
         values |-> [i \in 1..Len(index) |-> [j \in 1..Len(columns) |->
                        AtLabel(d[columns[j]], index[i])]]]

\* The frame of the returns of the positions held, or the exception of the first
\* position that raises: the positions are taken in the order of the dict's keys,
\* which is the build's, so any position that raises can be that one.
get_portfolio_historic_returns(fields, rows) ==
    LET positions == DOMAIN fields.shrs
        returns == [k \in positions |->
                       IF k \in DOMAIN fields.hld_per
                       THEN _get_historic_returns(rows, fields.freq, k,
                                fields.hld_per[k].start, fields.hld_per[k].end, 1)
                       ELSE [kind |-> "raise", exc |-> "KeyError"]]
    IN  IF \E k \in positions : returns[k].kind = "raise"
        THEN {[kind |-> "raise", exc |-> returns[k].exc] :
                 k \in {p \in positions : returns[p].kind = "raise"}}
        ELSE {[kind |-> "return", frame |-> FrameOfSeries(returns)]}

\* the mutant: DataFrame.dropna(how='all')
DropNaAll(frame) ==
    LET keep == SelectSeq([i \in 1..Len(frame.index) |-> i],
                          LAMBDA i : \E j \in 1..Len(frame.columns) :
                                        ~IsNaN(frame.values[i][j]))
    IN  [index |-> [i \in 1..Len(keep) |-> frame.index[keep[i]]],
         columns |-> frame.columns,
         values |-> [i \in 1..Len(keep) |-> frame.values[keep[i]]]]

\* DataFrame.dropna(): the rows without any nan
DropNa(frame) ==
    LET keep == SelectSeq([i \in 1..Len(frame.index) |-> i],
                          LAMBDA i : \A j \in 1..Len(frame.columns) :
                                        ~IsNaN(frame.values[i][j]))
    IN  [index |-> [i \in 1..Len(keep) |-> frame.index[keep[i]]],
         columns |-> frame.columns,
         values |-> [i \in 1..Len(keep) |-> frame.values[keep[i]]]]

\* np.cov(frame, rowvar=0) on t rows and k >= 1 columns: the arrays a numpy build
\* can answer.  A 1 x 1 result is squeezed to a 0-d array.  One row is taken
\* for one variable of k observations (a 0-d array) in one build and for k
\* variables of one observation in another (k x k nan, 0 * (1 / 0)).  Without
\* rows the build answers k x k zeros (0 / -1), k x k nan (0 / 0), both squeezed
\* for k = 1, or the empty 0 x k array itself.
NpCov(values, t, k) ==
    IF t = 0
    THEN (IF k = 1 THEN {[ndim |-> 0, values |-> <<>>]}
          ELSE {[ndim |-> 2, values |-> [i \in 1..k |-> [j \in 1..k |-> z]]] :
                   z \in {I(0), NaN}})
         \cup {[ndim |-> 2, values |-> <<>>]}
    ELSE IF k = 1 THEN {[ndim |-> 0, values |-> <<>>]}
    ELSE IF t = 1
    THEN {[ndim |-> 0, values |-> <<>>],
          [ndim |-> 2, values |-> [i \in 1..k |-> [j \in 1..k |-> NaN]]]}
    ELSE LET mean == [j \in 1..k |-> FDiv(SumSeq([s \in 1..t |-> values[s][j]]), I(t))]
             x == [s \in 1..t |-> [j \in 1..k |-> FSub(values[s][j], mean[j])]]
         IN  {[ndim |-> 2,
               values |-> [i \in 1..k |-> [j \in 1..k |->
                   FDiv(SumSeq([s \in 1..t |-> FMul(x[s][i], x[s][j])]), I(t - 1))]]]}

\* What the call can do on a frame of returns: pandas.DataFrame refuses a 0-d
\* array ('Must pass 2-d input') and an array that has not one row a label (the
\* class of the exception is the build's).
get_covariance_matrix(historic_returns) ==
    LET frame == DropNa(historic_returns)
        covs == NpCov(frame.values, Len(frame.index), Len(frame.columns))
    IN  UNION {IF c.ndim = 0 \/ Len(c.values) # Len(frame.columns)
               THEN {[kind |-> "raise", exc |-> e] :
                        e \in {"Exception", "ValueError", "AssertionError"}}
               ELSE {[kind |-> "return", values |-> c.values,
                      index |-> frame.columns, columns |-> frame.columns]} :
               c \in covs}

\* port.get_covariance_matrix(port.get_portfolio_historic_returns())
CovarianceOfHistoricReturns(fields, rows) ==
    UNION {IF r.kind = "raise" THEN {r} ELSE get_covariance_matrix(r.frame) :
           r \in get_portfolio_historic_returns(fields, rows)}

-----------------------------------------------------------------------------
(* Inputs of get_covariance_matrix.                                         *)

MaxObs == 3        \* rows of the frame passed: 0..MaxObs
MaxSeries == 3     \* columns of the frame passed: 1..MaxSeries
MaxMarked == 3     \* at most this many entries are 1 or nan, the others 0

\* the frame of t rows and k columns with the values f at the row-major cells
\* DOMAIN f and 0 elsewhere
MarkedFrame(f, t, k) ==
    [index |-> [i \in 1..t |-> 2 * (i - 1)],
     columns |-> SubSeq(Tickers, 1, k),
     values |-> [i \in 1..t |-> [j \in 1..k |->
                    IF ((i - 1) * k + j) \in DOMAIN f THEN f[(i - 1) * k + j] ELSE I(0)]]]

\* the two-asset scenario: A = [100, 102, 101], B = [50, 49, 51] on three days
ScenarioTable ==
    [i \in 1..6 |->
        [ticker |-> IF i <= 3 THEN "A" ELSE "B",
         date |-> 2 * ((i - 1) % 3),
         adjustedClose |-> <<100, 102, 101, 50, 49, 51>>[i],
         frequency |-> "d"]]

\* a portfolio of A and B held over all the days
TwoAssetPortfolio ==
    [exp_ret |-> <<>>,
     hld_per |-> [k \in {"A", "B"} |-> [start |-> At(0), end |-> At(2 * MaxDays - 1)]],
     shrs |-> [k \in {"A", "B"} |-> IF k = "A" THEN 10 ELSE 5],
     freq |-> "d",
     bench_wts |-> <<>>]

InitCov ==
    /\ quotes = <<>>
    /\ pc = "call"
    /\ ret = NoRet
    /\ \/ /\ op = "get_covariance_matrix"
          /\ self = EmptyPortfolio
          /\ price_data = <<>>
          /\ \E t \in 0..MaxObs, k \in 1..MaxSeries :
                \E S \in SUBSET (1..(t * k)) :
                   /\ Cardinality(S) <= MaxMarked
                   /\ \E f \in [S -> {I(1), NaN}] :
                         arg = [historic_returns |-> MarkedFrame(f, t, k)]
       \/ /\ op = "covariance_of_historic_returns"
          /\ self = TwoAssetPortfolio
          /\ \/ \E a \in TickerRows("A", "d", {1, 2}), b \in TickerRows("B", "d", {1, 2}) :
                   price_data = a \o b
             \/ price_data = ScenarioTable
          /\ arg = [offset |-> 1]

\* X -= X.mean(...) of np.cov on its t x k copy: the contents a numpy build can
\* leave.  One row is one variable of k observations in one build and k
\* variables of one observation in another.
CovDemeaned(values, t, k) ==
    IF t = 0 THEN {values}
    ELSE IF t = 1
    THEN {[i \in 1..1 |-> [j \in 1..k |->
              FSub(values[1][j], FDiv(SumSeq(values[1]), I(k)))]],
          [i \in 1..1 |-> [j \in 1..k |-> FSub(values[1][j], values[1][j])]]}
    ELSE {Demean(values, t, k)}

\* The arrays when the call of get_covariance_matrix ends, one heap for every
\* content np.cov can leave.  pandas.DataFrame(historic_returns) holds the
\* caller's array itself (at 1); dropna() answers a new frame with a new array
\* (at 2); np.cov works on X = array(m, ndmin=2, ...), a copy (at 3), and
\* subtracts the mean from X in place.
CovArrays(historic_returns) ==
    LET given == <<historic_returns.values>>
        frame == DropNa([historic_returns EXCEPT !.values = given[1]])
        dropped == NewArray(given, frame.values)
        copied == NewArray(dropped, dropped[2])
    IN  {WriteArray(copied, 3, d) :
            d \in CovDemeaned(copied[3], Len(frame.index), Len(frame.columns))}

\* the caller's frame after the call: the labels are only read
CovInputAfter(historic_returns) ==
    {[historic_returns EXCEPT !.values = heap[1]] : heap \in CovArrays(historic_returns)}

Covariance ==
    /\ pc = "call"
    /\ op = "get_covariance_matrix"
    /\ ret' \in get_covariance_matrix(arg.historic_returns)
    /\ \E after \in CovInputAfter(arg.historic_returns) :
          arg' = [arg EXCEPT !.historic_returns = after]
    /\ pc' = "done"
    /\ UNCHANGED <<self, price_data, quotes, op>>

HistoricCovariance ==
    /\ pc = "call"
    /\ op = "covariance_of_historic_returns"
    /\ ret' \in CovarianceOfHistoricReturns(self, price_data)
    /\ pc' = "done"
    /\ UNCHANGED <<self, price_data, quotes, op, arg>>

NextCov == Covariance \/ HistoricCovariance

SpecCov == InitCov /\ [][NextCov]_vars

\* the frame of returns the covariance is taken of
HistoricReturnsFrame ==
    CHOOSE r \in get_portfolio_historic_returns(self, price_data) : TRUE

CovInput ==
    IF op = "get_covariance_matrix" THEN arg.historic_returns
    ELSE HistoricReturnsFrame.frame

\* a covariance call that ended, on a frame of returns
CovCase ==
    /\ pc = "done"
    /\ \/ op = "get_covariance_matrix"
       \/ op = "covariance_of_historic_returns" /\ HistoricReturnsFrame.kind = "return"

\* the rows of a frame in which every one of the columns cs has a value
RowsWith(frame, cs) ==
    {i \in 1..Len(frame.index) : \A j \in cs : ~IsNaN(frame.values[i][j])}

CompleteRows(frame) == RowsWith(frame, 1..Len(frame.columns))

RECURSIVE SumOver(_, _, _, _)
\* the sum over the rows R of the product of columns i and j (j = 0: of column i)
SumOver(frame, R, i, j) ==
    IF R = {} THEN I(0)
    ELSE LET r == CHOOSE x \in R : TRUE
         IN  FAdd(SumOver(frame, R \ {r}, i, j),
                  IF j = 0 THEN frame.values[r][i]
                  ELSE FMul(frame.values[r][i], frame.values[r][j]))

\* (sum of x_i x_j - (sum of x_i)(sum of x_j) / T) / (T - 1) over the T rows R
CovOver(frame, R, i, j) ==
    LET T == Cardinality(R)
    IN  FDiv(FSub(SumOver(frame, R, i, j),
                  FDiv(FMul(SumOver(frame, R, i, 0), SumOver(frame, R, j, 0)), I(T))),
             I(T - 1))

\* C5: a covariance returned of a frame with T >= 2 complete rows is labelled by
\* the columns of the frame and each entry (i, j) is the sum of the products of
\* deviations over the T rows complete in every column, divided by T - 1.
C5_ListwiseBesselCovariance ==
    (CovCase /\ ret.kind = "return" /\ Cardinality(CompleteRows(CovInput)) >= 2) =>
        /\ ret.columns = CovInput.columns
        /\ ret.index = CovInput.columns
        /\ \A i, j \in 1..Len(CovInput.columns) :
               ret.values[i][j] = CovOver(CovInput, CompleteRows(CovInput), i, j)

\* C5 witness: a covariance returned of a frame of three series, where a row lacks
\* a value in the third series only and the entry of the first two series differs
\* from their covariance over the rows where both have a value
C5_Witness ==
    /\ CovCase /\ ret.kind = "return"
    /\ Len(CovInput.columns) = 3
    /\ Cardinality(CompleteRows(CovInput)) >= 2
    /\ \E r \in RowsWith(CovInput, {1, 2}) : IsNaN(CovInput.values[r][3])
    /\ ret.values[1][2] # CovOver(CovInput, RowsWith(CovInput, {1, 2}), 1, 2)
    /\ ret.values[1][2] # I(0)

IsScenario == op = "covariance_of_historic_returns" /\ price_data = ScenarioTable

\* C6 (as claimed): with fewer than 2 complete rows, and in the two-asset scenario,
\* the covariance call raises (whatever the class of the exception) and returns no
\* matrix.
C6_TooFewRowsRaises ==
    (CovCase /\ (Cardinality(CompleteRows(CovInput)) < 2 \/ IsScenario)) =>
        ret.kind = "raise"

-----------------------------------------------------------------------------
(* Weights and expected returns.  A Series is its index (tickers ascending) *)
(* and its values; a dict is a function of its keys.                        *)

\* pandas.Series(dict): the keys ascending
SeriesOfDict(d) ==
    LET index == SortedTickers(DOMAIN d)
    IN  [index |-> index, values |-> [i \in 1..Len(index) |-> d[index[i]]]]

\* the frame of the share count and the last trade price of every position
_build_portfolio(shares, yh) ==
    LET positions == DOMAIN shares
        prices == [position \in positions |-> yh[position]]
    IN  [shares |-> SeriesOfDict([k \in positions |-> I(shares[k])]),
         price |-> SeriesOfDict(prices)]

\* the labels of a binary operator on two Series: the union, ascending
AlignedIndex(a, b) == SortedTickers(Range(a.index) \cup Range(b.index))

\* Series * Series: on the union of the labels, nan where a side has no value
SeriesMul(a, b) ==
    LET index == AlignedIndex(a, b)
    IN  [index |-> index,
         values |-> [i \in 1..Len(index) |->
                        FMul(AtLabel(a, index[i]), AtLabel(b, index[i]))]]

\* Series - Series: on the union of the labels, nan where a side has no value
SeriesSub(a, b) ==
    LET index == AlignedIndex(a, b)
    IN  [index |-> index,
         values |-> [i \in 1..Len(index) |->
                        FSub(AtLabel(a, index[i]), AtLabel(b, index[i]))]]

\* Series.sum(): the sum of the values that are not nan; without any such value
\* nan or 0.0, by the pandas build
SeriesSum(series) ==
    LET kept == SelectSeq(series.values, LAMBDA v : ~IsNaN(v))
    IN  IF kept = <<>> THEN {NaN, I(0)} ELSE {SumSeq(kept)}

\* Series / scalar
SeriesDiv(series, x) ==
    [index |-> series.index,
     values |-> [i \in 1..Len(series.index) |-> FDiv(series.values[i], x)]]

\* pandas.DataFrame({name: series}), as returned
OneColumnFrame(name, series) ==
    [kind |-> "return", type |-> "DataFrame", columns |-> <<name>>,
     index |-> series.index, values |-> series.values]

\* the mutant: the positions weighed by their share count alone
MktValSharesOnly(portfolio) == portfolio.shares

\* portfolio['shares'] * portfolio['price']
MktVal(portfolio) == SeriesMul(portfolio.shares, portfolio.price)

\* mkt_val / portfolio_val, for every value the sum can have
PortWeights(fields, yh) ==
    LET portfolio == _build_portfolio(fields.shrs, yh)
        mkt_val == MktVal(portfolio)
    IN  {SeriesDiv(mkt_val, portfolio_val) : portfolio_val \in SeriesSum(mkt_val)}

get_portfolio_weights(fields, yh) ==
    {OneColumnFrame("port_weights", w) : w \in PortWeights(fields, yh)}

BenchWeights(fields) == SeriesOfDict(fields.bench_wts)

get_benchmark_weights(fields) == OneColumnFrame("bench_weights", BenchWeights(fields))

ExpectedReturns(fields) == SeriesOfDict(fields.exp_ret)

get_expected_stock_returns(fields) == OneColumnFrame("expected_returns", ExpectedReturns(fields))

\* the methods class Portfolio defines: the def statements that are not inside
\* a ''' string literal
PortfolioMethods ==
    {"__init__", "_get_historic_data", "_get_historic_returns", "_build_portfolio",
     "get_portfolio_historic_returns", "get_portfolio_historic_position_values",
     "get_portfolio_historic_values", "get_benchmark_weights", "get_portfolio_weights",
     "get_expected_stock_returns", "get_expected_excess_stock_returns",
     "get_covariance_matrix", "get_shrunk_covariance_matrix",
     "get_expected_benchmark_return", "get_expected_portfolio_return",
     "get_portfolio_size", "get_trading_dates", "information_ratio"}

\* port.get_active_weights(): the def of lines 268-284 is text of the string
\* literal of lines 267-285, so the object has no such attribute.  (The text is
\* portfolio['port_weights'] - bench['bench_weights'].)
get_active_weights(fields, yh) ==
    IF "get_active_weights" \notin PortfolioMethods
    THEN {[kind |-> "raise", exc |-> "AttributeError"]}
    ELSE {OneColumnFrame("active_weights", SeriesSub(w, BenchWeights(fields))) :
             w \in PortWeights(fields, yh)}

get_expected_benchmark_return(fields) ==
    OneColumnFrame("expected_benchmark_return",
                   SeriesMul(BenchWeights(fields), ExpectedReturns(fields)))

get_expected_portfolio_return(fields, yh) ==
    {OneColumnFrame("expected_portfolio_return", SeriesMul(w, ExpectedReturns(fields))) :
        w \in PortWeights(fields, yh)}

-----------------------------------------------------------------------------
(* Inputs of the weight and expected return methods.                        *)

MaxAssets == 2     \* the tickers of a call are among the first MaxAssets

Assets == {Tickers[i] : i \in 1..MaxAssets}
ShareCounts == {0, 5, 10}
LastPrices == {I(0), I(50), I(100)}
BenchWeightValues == {Q(1, 5), Q(1, 2)}
ExpectedReturnValues == {Q(1, 10), Q(-1, 20)}

\* the dicts with keys among Assets, at least one, and values in V
Dicts(V) == UNION {[P -> V] : P \in SUBSET Assets \ {{}}}

Holding(shrs, bench_wts, exp_ret) ==
    [exp_ret |-> exp_ret, hld_per |-> <<>>, shrs |-> shrs, freq |-> "m",
     bench_wts |-> bench_wts]

InitWeights ==
    /\ price_data = <<>>
    /\ arg = <<>>
    /\ pc = "call"
    /\ ret = NoRet
    /\ \/ /\ op = "get_portfolio_weights"
          /\ \E shrs \in Dicts(ShareCounts) :
                /\ self = Holding(shrs, <<>>, <<>>)
                /\ quotes \in [DOMAIN shrs -> LastPrices]
       \/ /\ op \in {"get_active_weights", "get_expected_portfolio_return"}
          /\ \E shrs \in Dicts(ShareCounts \ {0}) :
                /\ quotes \in [DOMAIN shrs -> LastPrices \ {I(0)}]
                /\ \/ /\ op = "get_active_weights"
                      /\ \E b \in Dicts(BenchWeightValues) : self = Holding(shrs, b, <<>>)
                   \/ /\ op = "get_expected_portfolio_return"
                      /\ \E e \in Dicts(ExpectedReturnValues) : self = Holding(shrs, <<>>, e)
       \/ /\ op = "get_expected_benchmark_return"
          /\ quotes = <<>>
          /\ \E b \in Dicts(BenchWeightValues), e \in Dicts(ExpectedReturnValues) :
                self = Holding(<<>>, b, e)
       \/ /\ op = "get_benchmark_weights"
          /\ quotes = <<>>
          /\ \E b \in Dicts(BenchWeightValues) : self = Holding(<<>>, b, <<>>)
       \/ /\ op = "get_expected_stock_returns"
          /\ quotes = <<>>
          /\ \E e \in Dicts(ExpectedReturnValues) : self = Holding(<<>>, <<>>, e)

Done(r) ==
    /\ ret' = r
    /\ pc' = "done"
    /\ UNCHANGED <<self, price_data, quotes, op, arg>>

PortfolioWeights ==
    /\ pc = "call" /\ op = "get_portfolio_weights"
    /\ \E r \in get_portfolio_weights(self, quotes) : Done(r)

BenchmarkWeights ==
    /\ pc = "call" /\ op = "get_benchmark_weights"
    /\ Done(get_benchmark_weights(self))

ActiveWeights ==
    /\ pc = "call" /\ op = "get_active_weights"
    /\ \E r \in get_active_weights(self, quotes) : Done(r)

ExpectedStockReturns ==
    /\ pc = "call" /\ op = "get_expected_stock_returns"
    /\ Done(get_expected_stock_returns(self))

ExpectedBenchmarkReturn ==
    /\ pc = "call" /\ op = "get_expected_benchmark_return"
    /\ Done(get_expected_benchmark_return(self))

ExpectedPortfolioReturn ==
    /\ pc = "call" /\ op = "get_expected_portfolio_return"
    /\ \E r \in get_expected_portfolio_return(self, quotes) : Done(r)

NextWeights ==
    \/ PortfolioWeights
    \/ BenchmarkWeights
    \/ ActiveWeights
    \/ ExpectedStockReturns
    \/ ExpectedBenchmarkReturn
    \/ ExpectedPortfolioReturn

SpecWeights == InitWeights /\ [][NextWeights]_vars

\* the market value of position k: its share count times its last price
MarketValue(k) == FMul(I(self.shrs[k]), quotes[k])

RECURSIVE TotalOver(_, _)
\* the sum of v over the tickers S
TotalOver(v, S) ==
    IF S = {} THEN I(0)
    ELSE LET k == CHOOSE x \in S : TRUE IN FAdd(TotalOver(v, S \ {k}), v[k])

TotalMarketValue ==
    TotalOver([k \in DOMAIN self.shrs |-> MarketValue(k)], DOMAIN self.shrs)

\* the weight of ticker k in the portfolio, 0 for a ticker not held
WeightOf(k) ==
    IF k \in DOMAIN self.shrs THEN FDiv(MarketValue(k), TotalMarketValue) ELSE I(0)

\* the weight of ticker k in the benchmark, 0 for a ticker it lacks
BenchWeightOf(k) == IF k \in DOMAIN self.bench_wts THEN self.bench_wts[k] ELSE I(0)

WeightsCase == pc = "done" /\ op = "get_portfolio_weights"

\* C7: with a total market value that is not zero, get_portfolio_weights returns
\* for every position its shares * price divided by the sum of shares * price over
\* the positions, and the weights returned sum to 1.
C7_WeightsAreValueShares ==
    (WeightsCase /\ TotalMarketValue # I(0)) =>
        /\ ret.kind = "return"
        /\ Range(ret.index) = DOMAIN self.shrs
        /\ Len(ret.index) = Cardinality(DOMAIN self.shrs)
        /\ \A i \in 1..Len(ret.index) : ret.values[i] = WeightOf(ret.index[i])
        /\ SumSeq(ret.values) = I(1)

\* C7 witness: 10 shares of A at 100 and 5 of B at 50 got the weights 0.8 and 0.2
C7_Witness ==
    /\ WeightsCase
    /\ DOMAIN self.shrs = {"A", "B"}
    /\ self.shrs["A"] = 10 /\ self.shrs["B"] = 5
    /\ quotes["A"] = I(100) /\ quotes["B"] = I(50)
    /\ ret.kind = "return"
    /\ ret.index = <<"A", "B">>
    /\ ret.values = <<Q(4, 5), Q(1, 5)>>

\* C8 (as claimed): with a total market value of zero get_portfolio_weights
\* raises and returns no weights.
C8_ZeroTotalRaises ==
    (WeightsCase /\ TotalMarketValue = I(0)) => ret.kind = "raise"

\* C9 (as claimed): the active weights are returned on the union of the tickers
\* of the portfolio and of the benchmark, each the portfolio weight minus the
\* benchmark weight, a ticker missing on a side weighing 0 there.
C9_ActiveWeightsOnUnion ==
    (pc = "done" /\ op = "get_active_weights") =>
        /\ ret.kind = "return"
        /\ Range(ret.index) = DOMAIN self.shrs \cup DOMAIN self.bench_wts
        /\ \A i \in 1..Len(ret.index) :
               ret.values[i] = FSub(WeightOf(ret.index[i]), BenchWeightOf(ret.index[i]))

\* the weights an expected return call multiplies with the expected returns
WeightsUsed ==
    IF op = "get_expected_portfolio_return"
    THEN [k \in DOMAIN self.shrs |-> WeightOf(k)]
    ELSE self.bench_wts

\* C10 (as claimed): an expected portfolio or benchmark return call returns the
\* one number sum of weight * expected return over the tickers weighed, and
\* raises when a ticker weighed has no expected return.
C10_ScalarOrMissingError ==
    (pc = "done" /\ op \in {"get_expected_portfolio_return", "get_expected_benchmark_return"}) =>
        IF DOMAIN WeightsUsed \subseteq DOMAIN self.exp_ret
        THEN /\ ret.kind = "return"
             /\ ret.type = "float"
             /\ ret.value = TotalOver([k \in DOMAIN WeightsUsed |->
                                          FMul(WeightsUsed[k], self.exp_ret[k])],
                                      DOMAIN WeightsUsed)
        ELSE ret.kind = "raise"

-----------------------------------------------------------------------------
(* The caller's input across the two covariance calls.                      *)

MaxCells == 2      \* at most this many entries of the input are not 0

InitInputs ==
    /\ self = EmptyPortfolio
    /\ price_data = <<>>
    /\ quotes = <<>>
    /\ pc = "call"
    /\ ret = NoRet
    /\ \/ /\ op = "get_shrunk_covariance_matrix"
          /\ \/ \E t \in 1..MaxDim, n \in 1..MaxDim :
                  \E S \in SUBSET (1..(t * n)) :
                     /\ Cardinality(S) <= MaxCells
                     /\ \E ty \in {"DataFrame", "ndarray"} :
                           /\ (ty = "DataFrame" /\ t = n) => ExactInput(SparseMatrix(S, t, n))
                           /\ arg = [x |-> Frame(ty, SparseMatrix(S, t, n)),
                                     shrink |-> None]
             \/ \E n \in 0..MaxDim : arg = [x |-> EmptyFrame(n), shrink |-> None]
             \/ \E ty \in {"NoneType", "list"} :
                   arg = [x |-> [type |-> ty, values |-> <<>>, index |-> <<>>,
                                 columns |-> <<>>],
                          shrink |-> None]
       \/ /\ op = "get_covariance_matrix"
          /\ \E t \in 0..MaxObs, k \in 1..MaxSeries :
                \E S \in SUBSET (1..(t * k)) :
                   /\ Cardinality(S) <= MaxCells
                   /\ \E f \in [S -> {I(1), NaN}] :
                         arg = [historic_returns |-> MarkedFrame(f, t, k)]

NextInputs == ShrunkCovariance \/ Covariance

SpecInputs == InitInputs /\ [][NextInputs]_vars

\* C11: no step of get_covariance_matrix or get_shrunk_covariance_matrix, returning
\* or raising, changes an entry or a label of the matrix or table the caller
\* passed.
C11_InputsNeverMutated == [][arg' = arg]_vars

\* C11 witness: a shrunk covariance was returned of a DataFrame whose demeaned
\* values differ from its values
C11_Witness ==
    /\ Returned
    /\ op = "get_shrunk_covariance_matrix"
    /\ arg.x.type = "DataFrame"
    /\ Demean(arg.x.values, NRows(arg.x.values), NCols(arg.x.values)) # arg.x.values

\* C12 (as claimed): of a T x N input with T >= 2, a DataFrame or an ndarray, the
\* call returns an N x N matrix; of a DataFrame its rows and its columns are both
\* labelled by the N columns of the input, never by the T row labels.
C12_LabelledByAssets ==
    (pc = "done" /\ op = "get_shrunk_covariance_matrix"
        /\ arg.x.type \in {"DataFrame", "ndarray"} /\ NRows(arg.x.values) >= 2) =>
        /\ ret.kind = "return"
        /\ NRows(ret.sigma) = NCols(arg.x.values)
        /\ NCols(ret.sigma) = NCols(arg.x.values)
        /\ arg.x.type = "DataFrame" =>
              /\ ret.columns = arg.x.columns
              /\ ret.index = arg.x.columns

-----------------------------------------------------------------------------
(* The constructor.  The attributes of the object are the fields set so far *)
(* (none before the call); the table holds the loads asked of the price     *)
(* history loader after it was reset.                                       *)

NoneArg == [type |-> "NoneType", ts |-> 0]

\* the names bound at module level in portfolio.py (imports, dunders, the class)
ModuleGlobals ==
    {"sqrt", "log", "datetime", "time", "fin", "np", "pandas", "tables", "yahoo",
     "ph", "createdailytable", "__all__", "__version__", "__author__", "Portfolio"}

\* the value a name read in __init__ but never assigned there resolves to
GlobalValue(name) == [global |-> name]

\* an optional date argument that was passed (lines 62-66, 70-74): a str has no
\* strftime, a datetime becomes the timestamp of its midnight
DateOfArg(d) ==
    IF d.type \notin {"str", "datetime"} THEN [kind |-> "raise", exc |-> "ValueError"]
    ELSE IF d.type = "str" THEN [kind |-> "raise", exc |-> "AttributeError"]
    ELSE [kind |-> "ok", value |-> Midnight(d.ts)]

\* dict.keys(): the keys in the order of the dict, which the build decides (the
\* hashes of the keys, or the order of insertion)
KeyOrders(d) ==
    {s \in [1..Cardinality(DOMAIN d) -> DOMAIN d] : Range(s) = DOMAIN d}

\* phobj.insert(symbol, start, start, frequency) for every key of
\* holding_periods, one sequence of loads for every order of the keys
LoadsAsked(holding_periods, start, frequency) ==
    {[i \in 1..Len(symbols) |->
         [ticker |-> symbols[i], from |-> start, to |-> start,
          frequency |-> frequency]] : symbols \in KeyOrders(holding_periods)}

\* Portfolio.__init__: the attributes set, the table afterwards and the outcome,
\* one record for every order of the loads.  start and end are [type, ts]; table
\* is the table before the call.
__init__(portfolio, benchmark, start, end, proxy, table) ==
    LET s1 == IF start.type # "NoneType" THEN DateOfArg(start)
              ELSE [kind |-> "ok", value |-> portfolio.defaults.start]
        e1 == IF end.type # "NoneType" THEN DateOfArg(end)
              ELSE [kind |-> "ok", value |-> None]
        \* line 76: without end it is start that takes the default end
        start2 == IF end.type # "NoneType" THEN s1.value ELSE portfolio.defaults.end
        frequency == portfolio.defaults.frequency
    IN  IF s1.kind = "raise"
        THEN {[fields |-> <<>>, table |-> table, outcome |-> s1]}
        ELSE IF e1.kind = "raise"
        THEN {[fields |-> <<>>, table |-> table, outcome |-> e1]}
        ELSE IF "holding_periods" \notin ModuleGlobals
        THEN {[fields |-> [exp_ret |-> portfolio.expected_returns],
               table |-> table,
               outcome |-> [kind |-> "raise", exc |-> "NameError"]]}
        ELSE LET holding_periods == GlobalValue("holding_periods")
             IN {[fields |-> [exp_ret |-> portfolio.expected_returns,
                              hld_per |-> holding_periods,
                              shrs |-> portfolio.shares,
                              freq |-> frequency,
                              start |-> start2,
                              end |-> e1.value,
                              proxy |-> proxy,
                              bench_wts |-> benchmark],
                  table |-> loads,
                  outcome |-> [kind |-> "return"]] :
                 loads \in LoadsAsked(holding_periods, start2, frequency)}

\* the configurations: the same tickers throughout, defaults of two days each
Configurations ==
    UNION {[expected_returns : [P -> {Q(1, 10)}],
            holding_periods : [P -> {[start |-> At(0), end |-> At(2 * MaxDays - 1)]}],
            shares : [P -> ShareCounts \ {0}],
            defaults : [start : {0, 2}, end : {4, 6}, frequency : {"d", "m"}]] :
           P \in SUBSET Assets \ {{}}}

InitConstruct ==
    /\ self = <<>>
    /\ price_data = <<>>
    /\ quotes = <<>>
    /\ op = "__init__"
    /\ pc = "call"
    /\ ret = NoRet
    /\ \E c \in Configurations :
          arg \in [portfolio : {c},
                   benchmark : [DOMAIN c.shares -> {Q(1, 2)}],
                   start : DateArgs \cup {NoneArg},
                   end : DateArgs \cup {NoneArg},
                   proxy : {None}]

Construct ==
    /\ pc = "call"
    /\ op = "__init__"
    /\ \E r \in __init__(arg.portfolio, arg.benchmark, arg.start, arg.end, arg.proxy,
                          price_data) :
           /\ self' = r.fields
           /\ price_data' = r.table
           /\ ret' = r.outcome
    /\ pc' = "done"
    /\ UNCHANGED <<quotes, op, arg>>

NextConstruct == Construct

SpecConstruct == InitConstruct /\ [][NextConstruct]_vars

\* C13 (as claimed): a construction without start and end completes, stores the
\* defaults' start and end and the configuration's holding periods, shares,
\* expected returns, benchmark weights and frequency, and asks the price
\* history of every held ticker from that start to that end.
C13_DefaultsCaptured ==
    (pc = "done" /\ op = "__init__"
        /\ arg.start.type = "NoneType" /\ arg.end.type = "NoneType") =>
        /\ ret.kind = "return"
        /\ self.start = arg.portfolio.defaults.start
        /\ self.end = arg.portfolio.defaults.end
        /\ self.hld_per = arg.portfolio.holding_periods
        /\ self.shrs = arg.portfolio.shares
        /\ self.exp_ret = arg.portfolio.expected_returns
        /\ self.bench_wts = arg.benchmark
        /\ self.freq = arg.portfolio.defaults.frequency
        /\ {price_data[i] : i \in 1..Len(price_data)} =
              {[ticker |-> k, from |-> arg.portfolio.defaults.start,
                to |-> arg.portfolio.defaults.end,
                frequency |-> arg.portfolio.defaults.frequency] :
               k \in DOMAIN arg.portfolio.holding_periods}

====
